---- MODULE Spec2Model ----
(***************************************************************************)
(* Change tracking of the MLB walk-up songs scraper (scraper.py).          *)
(*                                                                         *)
(* The table mlb_walk_up_songs is the variable db, a set of rows.  One run *)
(* of main() reads the current rows (get_existing_songs), scrapes a        *)
(* snapshot (scrape_all_teams), classifies it (detect_song_changes) and    *)
(* writes the result in one transaction                                    *)
(* (store_songs_with_change_tracking).  Runs follow one another; each run  *)
(* starts at a later instant of the logical clock.                         *)
(***************************************************************************)
EXTENDS Integers, Sequences, FiniteSets, Bags, TLC

(* ------------------------------ bounds --------------------------------- *)

\* longest scraped snapshot (entries of one run)
MaxLen == 2

\* last instant of the logical clock; every run starts at a later instant
MaxClock == 3

(* --------------------------- input universe ---------------------------- *)

\* the (team, player, song_name) triples the team pages can show
PageSongs ==
  { <<"t1", "p1", "A">>, <<"t1", "p1", "B">>, <<"t1", "p2", "A">> }

\* what the page and the catalog search attach to a song in one run:
\* the artist text, and either a matched track (uri, explicit) or None, None
Metas ==
  { [song_artist |-> "artist1", spotify_uri |-> "None", explicit |-> "None"],
    [song_artist |-> "artist2", spotify_uri |-> "uri1", explicit |-> "False"] }

\* a scraped entry, the dict appended to songs by scrape_team_songs
SongData(song, meta) ==
  [team |-> song[1], player |-> song[2], song_name |-> song[3],
   song_artist |-> meta.song_artist, spotify_uri |-> meta.spotify_uri,
   explicit |-> meta.explicit]

RECURSIVE SeqsUpTo(_, _)
SeqsUpTo(S, n) ==
  IF n = 0 THEN { <<>> }
  ELSE LET shorter == SeqsUpTo(S, n - 1)
       IN  shorter \cup { Append(s, x) : s \in shorter, x \in S }

\* the snapshots scrape_all_teams can return: lists of entries, in any
\* order, repeated entries included
Snapshots ==
  UNION { SeqsUpTo({ SongData(s, m) : s \in PageSongs }, MaxLen)
          : m \in Metas }

(* ------------------------------- state --------------------------------- *)

VARIABLES
  db,               \* rows of mlb_walk_up_songs (committed)
  clock,            \* CURRENT_TIMESTAMP of the current run
  pc,               \* position of main()
  existing_songs,   \* main: result of get_existing_songs
  current_songs,    \* main: result of scrape_all_teams
  new_songs,        \* main: detect_song_changes()[0]
  changed_songs,    \* main: detect_song_changes()[1]
  unchanged_songs,  \* main: detect_song_changes()[2]
  outcome,          \* how the store of this run ended
  db_before,        \* history: db when the store of this run began
  rerun,            \* history: this run scraped what the previous run committed
  rolled_back       \* history: the uncommitted rows a failed store gave up

(* ------------------------ state of the scraper ------------------------- *)

VARIABLES
  startup,     \* history: the startup checks of main() that passed, and
               \* whether --dry-run was among the arguments
  sp,          \* scrape_all_teams: the catalog client, FALSE for None
  team_links,  \* scrape_all_teams: the teams to process, in order
  all_songs,   \* scrape_all_teams: the songs of the teams processed
  tpc,         \* position of scrape_team_songs
  attempt,     \* scrape_team_songs: the loop variable of the fetch
  team_songs,  \* scrape_team_songs: the songs collected for the team
  fetch_log,   \* history: the requests and sleeps of the fetch loop
  events,      \* history: the searches and sleeps of the strategies
  ran,         \* history: the strategies run on the current team, in order
  yields,      \* history: the songs each of them collected
  page_read,   \* history: the page container each of them read
  processed    \* scrape_all_teams: the teams the loop is through, and
               \* history: what each gave

scrape_vars == << startup, sp, team_links, all_songs, tpc, attempt, team_songs,
                  fetch_log, events, ran, yields, page_read, processed >>

store_vars == << db, clock, existing_songs, current_songs, new_songs,
                 changed_songs, unchanged_songs, outcome, db_before, rerun,
                 rolled_back >>

vars == << pc, store_vars, scrape_vars >>

\* datetime.datetime.now(EST).date(): the day an instant falls on
DateOf(t) == (t + 1) \div 2

scrape_date == DateOf(clock)

(* ------------------------- get_existing_songs -------------------------- *)

\* the dict an existing row is read into
ExistingEntry(row) ==
  [song_name |-> row.song_name, song_artist |-> row.song_artist,
   spotify_uri |-> row.spotify_uri, explicit |-> row.explicit,
   first_seen_date |-> row.first_seen_date,
   last_updated_date |-> row.last_updated_date]

\* the mapping (team, player) -> entries built from the rows WHERE
\* is_current = TRUE; the order the rows come in is the database's choice and
\* only membership is read afterwards, so the lists are kept as sets
get_existing_songs(rows) ==
  LET current == { r \in rows : r.is_current }
      keys == { <<r.team, r.player>> : r \in current }
  IN  [ key \in keys |->
          { ExistingEntry(r) : r \in { x \in current : <<x.team, x.player>> = key } } ]

\* the except branch: return {}
EmptyMapping == [ key \in {} |-> {} ]

(* ------------------------- detect_song_changes ------------------------- *)

\* {**song_data, 'first_seen_date': ..., 'last_updated_date': ..., 'is_current': True}
AsNew(song_data, date) ==
  [first_seen_date |-> date, last_updated_date |-> date, is_current |-> TRUE]
    @@ song_data

\* {**song_data, 'last_updated_date': scrape_date}
AsUnchanged(song_data, date) ==
  [last_updated_date |-> date] @@ song_data

\* any(existing['song_name'] == song_name for existing in existing_player_songs)
song_exists(existing_player_songs, song_name) ==
  \E e \in existing_player_songs : e.song_name = song_name

\* DetectStep with the else of "if song_exists" lost: an unchanged song is
\* appended to changed as well
DetectStep_NoElse(acc, song_data, existing, date) ==
  LET player_key == <<song_data.team, song_data.player>>
  IN  IF player_key \notin DOMAIN existing
      THEN [acc EXCEPT !.new = Append(@, AsNew(song_data, date))]
      ELSE IF song_exists(existing[player_key], song_data.song_name)
           THEN [acc EXCEPT !.unchanged = Append(@, AsUnchanged(song_data, date)),
                            !.changed = Append(@, AsNew(song_data, date))]
           ELSE [acc EXCEPT !.changed = Append(@, AsNew(song_data, date))]

\* DetectStep with the existing songs looked up by team instead of by
\* (team, player)
DetectStep_TeamKey(acc, song_data, existing, date) ==
  LET team_keys == { k \in DOMAIN existing : k[1] = song_data.team }
      existing_team_songs == UNION { existing[k] : k \in team_keys }
  IN  IF team_keys = {}
      THEN [acc EXCEPT !.new = Append(@, AsNew(song_data, date))]
      ELSE IF song_exists(existing_team_songs, song_data.song_name)
           THEN [acc EXCEPT !.unchanged = Append(@, AsUnchanged(song_data, date))]
           ELSE [acc EXCEPT !.changed = Append(@, AsNew(song_data, date))]

\* one pass of the for loop: the three lists after song_data is classified
DetectStep(acc, song_data, existing, date) ==
  LET player_key == <<song_data.team, song_data.player>>
  IN  IF player_key \notin DOMAIN existing
      THEN [acc EXCEPT !.new = Append(@, AsNew(song_data, date))]
      ELSE IF song_exists(existing[player_key], song_data.song_name)
           THEN [acc EXCEPT !.unchanged = Append(@, AsUnchanged(song_data, date))]
           ELSE [acc EXCEPT !.changed = Append(@, AsNew(song_data, date))]

\* DetectLoop that adds each entry it classified new or changed to the
\* existing songs the later entries are compared with
RECURSIVE DetectLoop_Learns(_, _, _, _)
DetectLoop_Learns(acc, songs, existing, date) ==
  IF songs = <<>> THEN acc
  ELSE LET song_data == Head(songs)
           player_key == <<song_data.team, song_data.player>>
           seen == ExistingEntry(AsNew(song_data, date))
           learned ==
             [ key \in DOMAIN existing \cup { player_key } |->
                 (IF key \in DOMAIN existing THEN existing[key] ELSE {})
                   \cup (IF key = player_key THEN { seen } ELSE {}) ]
       IN  DetectLoop_Learns(DetectStep(acc, song_data, existing, date),
                             Tail(songs), learned, date)

RECURSIVE DetectLoop(_, _, _, _)
DetectLoop(acc, songs, existing, date) ==
  IF songs = <<>> THEN acc
  ELSE DetectLoop(DetectStep(acc, Head(songs), existing, date),
                  Tail(songs), existing, date)

detect_song_changes(songs, existing, date) ==
  DetectLoop([new |-> <<>>, changed |-> <<>>, unchanged |-> <<>>],
             songs, existing, date)

(* ------------------- store_songs_with_change_tracking ------------------ *)

\* UpdateDeactivate with is_current = FALSE missing from the SET list
UpdateDeactivate_TimestampOnly(rows, team, player, now) ==
  { IF r.team = team /\ r.player = player /\ r.is_current
    THEN [r EXCEPT !.updated_at = now]
    ELSE r : r \in rows }

\* UpdateDeactivate as a DELETE of the superseded rows
UpdateDeactivate_Delete(rows, team, player, now) ==
  { r \in rows : ~(r.team = team /\ r.player = player /\ r.is_current) }

\* UpdateDeactivate with player missing from the WHERE clause
UpdateDeactivate_WholeTeam(rows, team, player, now) ==
  { IF r.team = team /\ r.is_current
    THEN [r EXCEPT !.is_current = FALSE, !.updated_at = now]
    ELSE r : r \in rows }

\* UPDATE ... SET is_current = FALSE, updated_at = CURRENT_TIMESTAMP
\* WHERE team = :team AND player = :player AND is_current = TRUE
UpdateDeactivate(rows, team, player, now) ==
  { IF r.team = team /\ r.player = player /\ r.is_current
    THEN [r EXCEPT !.is_current = FALSE, !.updated_at = now]
    ELSE r : r \in rows }

\* for team, player in players_with_changes: one UPDATE each
RECURSIVE DeactivateAll(_, _, _)
DeactivateAll(rows, changed, now) ==
  IF changed = <<>> THEN rows
  ELSE DeactivateAll(UpdateDeactivate(rows, Head(changed).team, Head(changed).player, now),
                     Tail(changed), now)

\* the unique constraint on (team, player, song_name)
UniqueViolation(rows, entry) ==
  \E r \in rows : /\ r.team = entry.team
                  /\ r.player = entry.player
                  /\ r.song_name = entry.song_name

\* the row INSERT ... VALUES (:team, ..., :is_current) creates; updated_at is
\* not in the column list and takes the time of the statement
InsertedRow(entry, now) ==
  [team |-> entry.team, player |-> entry.player, song_name |-> entry.song_name,
   song_artist |-> entry.song_artist, spotify_uri |-> entry.spotify_uri,
   explicit |-> entry.explicit, first_seen_date |-> entry.first_seen_date,
   last_updated_date |-> entry.last_updated_date,
   is_current |-> entry.is_current, updated_at |-> now]

\* InsertAll with ON CONFLICT (team, player, song_name) DO UPDATE: the stored
\* row takes the values of the entry, is_current = TRUE among them
RECURSIVE InsertAll_Upsert(_, _, _)
InsertAll_Upsert(rows, entries, now) ==
  IF entries = <<>> THEN [ok |-> TRUE, rows |-> rows]
  ELSE LET entry == Head(entries)
           kept == { r \in rows : ~(/\ r.team = entry.team
                                      /\ r.player = entry.player
                                      /\ r.song_name = entry.song_name) }
       IN  InsertAll_Upsert(kept \cup { InsertedRow(entry, now) }, Tail(entries), now)

\* conn.execute(INSERT, all_new_entries): the rows one after another; a row
\* that violates the unique constraint raises and ends the statement
RECURSIVE InsertAll(_, _, _)
InsertAll(rows, entries, now) ==
  IF entries = <<>> THEN [ok |-> TRUE, rows |-> rows]
  ELSE IF UniqueViolation(rows, Head(entries))
       THEN [ok |-> FALSE, rows |-> rows]
       ELSE InsertAll(rows \cup { InsertedRow(Head(entries), now) }, Tail(entries), now)

\* UpdateLastSeen with song_name missing from the WHERE clause
UpdateLastSeen_NoSongFilter(rows, song, now) ==
  { IF r.team = song.team /\ r.player = song.player
    THEN [r EXCEPT !.last_updated_date = song.last_updated_date, !.updated_at = now]
    ELSE r : r \in rows }

\* UpdateLastSeen with AND is_current = TRUE added to the WHERE clause
UpdateLastSeen_CurrentOnly(rows, song, now) ==
  { IF /\ r.team = song.team /\ r.player = song.player
       /\ r.song_name = song.song_name /\ r.is_current
    THEN [r EXCEPT !.last_updated_date = song.last_updated_date, !.updated_at = now]
    ELSE r : r \in rows }

\* UpdateLastSeen that sets first_seen_date in place of last_updated_date
UpdateLastSeen_WrongColumn(rows, song, now) ==
  { IF r.team = song.team /\ r.player = song.player /\ r.song_name = song.song_name
    THEN [r EXCEPT !.first_seen_date = song.last_updated_date, !.updated_at = now]
    ELSE r : r \in rows }

\* UPDATE ... SET last_updated_date = :last_updated_date,
\* updated_at = CURRENT_TIMESTAMP
\* WHERE team = :team AND player = :player AND song_name = :song_name
UpdateLastSeen(rows, song, now) ==
  { IF r.team = song.team /\ r.player = song.player /\ r.song_name = song.song_name
    THEN [r EXCEPT !.last_updated_date = song.last_updated_date, !.updated_at = now]
    ELSE r : r \in rows }

\* for song in unchanged_songs: one UPDATE each
RECURSIVE UpdateAllUnchanged(_, _, _)
UpdateAllUnchanged(rows, unchanged, now) ==
  IF unchanged = <<>> THEN rows
  ELSE UpdateAllUnchanged(UpdateLastSeen(rows, Head(unchanged), now), Tail(unchanged), now)

\* Transaction with the INSERT issued before the deactivations
Transaction_InsertFirst(rows, new, changed, unchanged, now) ==
  LET inserted == InsertAll(rows, new \o changed, now)
      deactivated == DeactivateAll(inserted.rows, changed, now)
  IN  [ok |-> inserted.ok,
       rows |-> UpdateAllUnchanged(deactivated, unchanged, now)]

\* the statements of the transaction in the order the function issues them
Transaction(rows, new, changed, unchanged, now) ==
  LET deactivated == DeactivateAll(rows, changed, now)
      inserted == InsertAll(deactivated, new \o changed, now)
  IN  [ok |-> inserted.ok,
       rows |-> UpdateAllUnchanged(inserted.rows, unchanged, now)]

\* the rows as the open transaction sees them at the places where a
\* statement (or the commit) can raise an operational error: after each
\* deactivation and, when the INSERT went through, after each UPDATE of an
\* unchanged song
WorkingCopies(rows, new, changed, unchanged, now) ==
  LET inserted == InsertAll(DeactivateAll(rows, changed, now), new \o changed, now)
  IN  { DeactivateAll(rows, SubSeq(changed, 1, k), now) : k \in 0 .. Len(changed) }
        \cup
      IF inserted.ok
      THEN { UpdateAllUnchanged(inserted.rows, SubSeq(unchanged, 1, k), now) :
               k \in 0 .. Len(unchanged) }
      ELSE {}

\* Rollback with every statement committed as it is executed
Rollback_Autocommit(committed, working) == working

\* the exception leaves "with engine.connect() as conn" before trans.commit():
\* the connection is closed and the open transaction is rolled back
Rollback(committed, working) == committed

(* ------------------------------ main() --------------------------------- *)

\* the scraper before scrape_all_teams is called
ScrapeIdle ==
  /\ startup = [args |-> FALSE, engine |-> FALSE, schema |-> FALSE,
                dry_run |-> FALSE]
  /\ sp = FALSE
  /\ team_links = <<>>
  /\ all_songs = <<>>
  /\ tpc = "idle"
  /\ attempt = 0
  /\ team_songs = <<>>
  /\ fetch_log = <<>>
  /\ events = <<>>
  /\ ran = <<>>
  /\ yields = <<>>
  /\ page_read = <<>>
  /\ processed = <<>>

Init ==
  /\ ScrapeIdle
  /\ db = {}
  /\ clock = 0
  /\ pc = "idle"
  /\ existing_songs = EmptyMapping
  /\ current_songs = <<>>
  /\ new_songs = <<>>
  /\ changed_songs = <<>>
  /\ unchanged_songs = <<>>
  /\ outcome = "none"
  /\ db_before = {}
  /\ rerun = FALSE
  /\ rolled_back = {}

\* a run starts: arguments checked, scrape_date taken, engine and schema ready
StartRun ==
  /\ pc \in {"idle", "done", "failed"}
  /\ \E t \in (clock + 1) .. MaxClock : clock' = t
  /\ pc' = "connected"
  /\ existing_songs' = EmptyMapping
  /\ new_songs' = <<>>
  /\ changed_songs' = <<>>
  /\ unchanged_songs' = <<>>
  /\ db_before' = {}
  /\ rerun' = FALSE
  /\ rolled_back' = {}
  /\ UNCHANGED << db, current_songs, outcome >>
  /\ UNCHANGED scrape_vars

\* GetExisting without the except branch of get_existing_songs: the
\* exception of the query ends main
GetExisting_Reraises ==
  /\ pc = "connected"
  /\ \E raised \in BOOLEAN :
       /\ existing_songs' = IF raised THEN existing_songs ELSE get_existing_songs(db)
       /\ pc' = IF raised THEN "failed" ELSE "read"
  /\ UNCHANGED << db, clock, current_songs, new_songs, changed_songs,
                  unchanged_songs, outcome, db_before, rerun, rolled_back >>
  /\ UNCHANGED scrape_vars

\* existing_songs = get_existing_songs(engine): the current rows, or {} when
\* the query raised
GetExisting ==
  /\ pc = "connected"
  /\ \E raised \in BOOLEAN :
       existing_songs' = IF raised THEN EmptyMapping ELSE get_existing_songs(db)
  /\ pc' = "read"
  /\ UNCHANGED << db, clock, current_songs, new_songs, changed_songs,
                  unchanged_songs, outcome, db_before, rerun, rolled_back >>
  /\ UNCHANGED scrape_vars

\* current_songs = scrape_all_teams(...)
Scrape ==
  /\ pc = "read"
  /\ \E songs \in Snapshots :
       /\ current_songs' = songs
       /\ rerun' = (outcome = "ok" /\ songs = current_songs)
  /\ pc' = "scraped"
  /\ UNCHANGED << db, clock, existing_songs, new_songs, changed_songs,
                  unchanged_songs, outcome, db_before, rolled_back >>
  /\ UNCHANGED scrape_vars

\* new_songs, changed_songs, unchanged_songs = detect_song_changes(...)
Detect ==
  /\ pc = "scraped"
  /\ LET d == detect_song_changes(current_songs, existing_songs, scrape_date)
     IN  /\ new_songs' = d.new
         /\ changed_songs' = d.changed
         /\ unchanged_songs' = d.unchanged
  /\ pc' = "detected"
  /\ UNCHANGED << db, clock, existing_songs, current_songs, outcome,
                  db_before, rerun, rolled_back >>
  /\ UNCHANGED scrape_vars

\* store_songs_with_change_tracking(...): the transaction commits; or the
\* INSERT violates the unique constraint; or the database raises an
\* operational error at some statement or at the commit.  An exception rolls
\* the transaction back, is logged and raised again, and ends the run
Store ==
  /\ pc = "detected"
  /\ db_before' = db
  /\ LET t == Transaction(db, new_songs, changed_songs, unchanged_songs, clock)
     IN  \/ /\ t.ok
            /\ db' = t.rows
            /\ rolled_back' = {}
            /\ outcome' = "ok"
            /\ pc' = "done"
         \/ /\ ~t.ok
            /\ LET working == DeactivateAll(db, changed_songs, clock)
               IN  /\ db' = Rollback(db, working)
                   /\ rolled_back' = working
            /\ outcome' = "integrity_error"
            /\ pc' = "failed"
         \/ \E working \in WorkingCopies(db, new_songs, changed_songs,
                                         unchanged_songs, clock) :
              /\ db' = Rollback(db, working)
              /\ rolled_back' = working
              /\ outcome' = "operational_error"
              /\ pc' = "failed"
  /\ UNCHANGED << clock, existing_songs, current_songs, new_songs,
                  changed_songs, unchanged_songs, rerun >>
  /\ UNCHANGED scrape_vars

Next == StartRun \/ GetExisting \/ Scrape \/ Detect \/ Store

Spec == Init /\ [][Next]_vars

(* ========================= the scraper of one run ====================== *)

(* ------------------------------ bounds --------------------------------- *)

\* most player entries (list items, table rows) a page container holds
MaxEntries == 2

(* ------------------------------ constants ------------------------------ *)

max_retries == 3

\* time.sleep(0.2) after a catalog search, in milliseconds
RateLimitMs == 200

(* --------------------------- input universe ---------------------------- *)

\* the team lists get_team_links can return ({} when the index page fails)
TeamLists == { <<>>, <<"t1">>, <<"t2", "t1">> }

\* the track a catalog search can return
Track == [uri |-> "uri1", explicit |-> "False"]

\* what sp.search does: it raises, or it returns the list of items
Answers ==
  { [raised |-> TRUE, items |-> <<>>],
    [raised |-> FALSE, items |-> <<>>],
    [raised |-> FALSE, items |-> <<Track>>] }

\* strategy 1, the p-forge-list container: absent, or its player entries; an
\* entry lacks its heading or text element, or gives a name and the
\* player_songs set in the order it is iterated
ForgeEntries ==
  { [intact |-> FALSE, player |-> "p1", pairs |-> <<>>] }
    \cup { [intact |-> TRUE, player |-> "p1", pairs |-> ps] :
             ps \in { <<>>, << <<"A", "x">> >>, << <<"B", "">> >>,
                      << <<"A", "x">>, <<"", "y">> >> } }

ForgeLists ==
  { [found |-> FALSE, players |-> <<>>] }
    \cup { [found |-> TRUE, players |-> es] : es \in SeqsUpTo(ForgeEntries, MaxEntries) }

\* strategy 2, the player-walkup-music table: absent, or its rows; a row
\* has both name tags or not, and its song divs
WidgetEntries ==
  { [named |-> FALSE, player |-> "p2", pairs |-> << <<"A", "x">> >>] }
    \cup { [named |-> TRUE, player |-> "p2", pairs |-> ps] :
             ps \in { <<>>, << <<"A", "x">> >>, << <<"B", "">>, <<"A", "x">> >> } }

WidgetTables ==
  { [found |-> FALSE, entries |-> <<>>] }
    \cup { [found |-> TRUE, entries |-> es] : es \in SeqsUpTo(WidgetEntries, MaxEntries) }

\* strategy 3, the <table> elements of the page: the texts of the th cells
\* and, row by row, the texts of the td cells
HeaderRows ==
  { <<"Player", "Song", "Artist">>, <<"player", "SONG">>, <<"Name", "Title">>,
    <<"Song", "Artist", "Player">> }

CellRows ==
  { <<"p1", "A", "x">>, <<"", "B", "x">>, <<"p2", "", "x">>, <<" ", "A", "">>,
    <<"p1">>, <<"p1", "A">> }

SimpleTable(h, rs) == [headers |-> h, rows |-> rs]

\* no table, one table, or one of a few pairs of tables
TableLists ==
  SeqsUpTo({ SimpleTable(h, rs) :
               h \in HeaderRows, rs \in SeqsUpTo(CellRows, MaxEntries) }, 1)
    \cup { << SimpleTable(h, <<r>>), SimpleTable(<<"Player", "Song", "Artist">>,
                                                 << <<"p2", "B", "x">> >>) >> :
             h \in HeaderRows, r \in { <<"p1", "A", "x">>, <<"", "B", "x">> } }

\* the containers the page of a team can hold: any of the above for t1, and
\* for t2 a page with at most one player in a forge list and nothing else
ForgeListsOf(team) ==
  IF team = "t1" THEN ForgeLists
  ELSE { [found |-> FALSE, players |-> <<>>],
         [found |-> TRUE,
          players |-> << [intact |-> TRUE, player |-> "p1",
                          pairs |-> << <<"A", "x">> >>] >>] }

WidgetTablesOf(team) ==
  IF team = "t1" THEN WidgetTables ELSE { [found |-> FALSE, entries |-> <<>>] }

TableListsOf(team) ==
  IF team = "t1" THEN TableLists ELSE { <<>> }

(* ----------------------------- the fetch ------------------------------- *)

\* time.sleep(2**attempt) counted from the first retry at two seconds
Backoff_FromTwo(n) == 2 ^ (n + 1)

\* time.sleep(2**attempt), in seconds
Backoff(n) == 2 ^ n

GetEvent(team, ok) == [ev |-> "get", team |-> team, ok |-> ok]

SleepEvent(ms) == [ev |-> "sleep", ms |-> ms]

(* -------------------------- the catalog search ------------------------- *)

SearchEvent(song_name, song_artist, answer) ==
  [ev |-> "search", song_name |-> song_name, song_artist |-> song_artist,
   answer |-> answer]

\* "if sp and song_name and song_artist"
ShouldSearch_NameOnly(client, song_name, song_artist) ==
  client /\ song_name # ""

ShouldSearch(client, song_name, song_artist) ==
  client /\ song_name # "" /\ song_artist # ""

\* the try block around sp.search with the exception of the search let
\* through to the strategy's handler
Search_Uncaught(answer) ==
  IF answer.raised
  THEN [data |-> <<>>, slept |-> FALSE, raised |-> TRUE]
  ELSE [data |-> IF answer.items # <<>> THEN <<answer.items[1]>> ELSE <<>>,
        slept |-> TRUE, raised |-> FALSE]

\* the try block around sp.search: spotify_data is the first item, or None
\* (the empty list here) when there is none or the search raised; the sleep
\* follows the search inside the try
Search(answer) ==
  IF answer.raised
  THEN [data |-> <<>>, slept |-> FALSE, raised |-> FALSE]
  ELSE [data |-> IF answer.items # <<>> THEN <<answer.items[1]>> ELSE <<>>,
        slept |-> TRUE, raised |-> FALSE]

\* the dict appended to songs
SongRecord(team, player, song_name, song_artist, spotify_data) ==
  [team |-> team, player |-> player, song_name |-> song_name,
   song_artist |-> song_artist,
   spotify_uri |-> IF spotify_data # <<>> THEN spotify_data[1].uri ELSE "None",
   explicit |-> IF spotify_data # <<>> THEN spotify_data[1].explicit ELSE "None"]

\* one song of a strategy: the search when it is due, then songs.append.
\* acc holds the songs and events so far, the answers the catalog will give
\* to the searches still to come, and whether an exception ended the strategy
AddSong(acc, team, player, song_name, song_artist, client) ==
  IF acc.raised THEN acc
  ELSE IF ShouldSearch(client, song_name, song_artist)
       THEN LET answer == Head(acc.answers)
                found == Search(answer)
                called == Append(acc.events, SearchEvent(song_name, song_artist, answer))
            IN  [songs |-> IF found.raised THEN acc.songs
                           ELSE Append(acc.songs,
                                       SongRecord(team, player, song_name,
                                                  song_artist, found.data)),
                 events |-> IF found.slept
                            THEN Append(called, SleepEvent(RateLimitMs))
                            ELSE called,
                 answers |-> Tail(acc.answers),
                 raised |-> found.raised]
       ELSE [acc EXCEPT !.songs = Append(@, SongRecord(team, player, song_name,
                                                       song_artist, <<>>))]

\* a strategy begins: nothing collected, nothing raised
Begin(answers) ==
  [songs |-> <<>>, events |-> <<>>, answers |-> answers, raised |-> FALSE]

\* the exception passes the strategy's handler and reaches the outer one,
\* which returns []
Raise_ToOuterHandler(acc) == [acc EXCEPT !.raised = TRUE, !.songs = <<>>]

\* an exception ends the strategy; what it collected stays in songs
Raise(acc) == [acc EXCEPT !.raised = TRUE]

(* ------------------ strategy 1: the forge list ------------------------- *)

RECURSIVE PlayerSongs(_, _, _, _, _)
\* "for song_name, song_artist in player_songs": every pair is appended
PlayerSongs(acc, team, player, pairs, client) ==
  IF pairs = <<>> THEN acc
  ELSE PlayerSongs(AddSong(acc, team, player, Head(pairs)[1], Head(pairs)[2], client),
                   team, player, Tail(pairs), client)

RECURSIVE ForgePlayers_EmptyIsError(_, _, _, _)
\* ForgePlayers that raises on an entry whose player_songs is empty
ForgePlayers_EmptyIsError(acc, players, team, client) ==
  IF players = <<>> \/ acc.raised THEN acc
  ELSE IF ~Head(players).intact \/ Head(players).pairs = <<>> THEN Raise(acc)
       ELSE ForgePlayers_EmptyIsError(PlayerSongs(acc, team, Head(players).player,
                                                  Head(players).pairs, client),
                                      Tail(players), team, client)

RECURSIVE ForgePlayers_SkipsBroken(_, _, _, _)
\* ForgePlayers that passes over an entry without its heading or text
\* element and goes on with the next
ForgePlayers_SkipsBroken(acc, players, team, client) ==
  IF players = <<>> \/ acc.raised THEN acc
  ELSE IF ~Head(players).intact
       THEN ForgePlayers_SkipsBroken(acc, Tail(players), team, client)
       ELSE ForgePlayers_SkipsBroken(PlayerSongs(acc, team, Head(players).player,
                                                 Head(players).pairs, client),
                                     Tail(players), team, client)

RECURSIVE ForgePlayers(_, _, _, _)
\* "for player in players": an entry without its heading or text element
\* raises AttributeError, which ends the strategy
ForgePlayers(acc, players, team, client) ==
  IF players = <<>> \/ acc.raised THEN acc
  ELSE IF ~Head(players).intact THEN Raise(acc)
       ELSE ForgePlayers(PlayerSongs(acc, team, Head(players).player,
                                     Head(players).pairs, client),
                         Tail(players), team, client)

Method1(forge, team, client, answers) ==
  IF ~forge.found THEN Raise(Begin(answers))
  ELSE ForgePlayers(Begin(answers), forge.players, team, client)

(* ------------------ strategy 2: the walkup music table ----------------- *)

RECURSIVE EntrySongs(_, _, _, _, _)
\* "for song in player_songs": "if song_name and artist_name"
EntrySongs(acc, team, player, pairs, client) ==
  IF pairs = <<>> THEN acc
  ELSE EntrySongs(IF Head(pairs)[1] # "" /\ Head(pairs)[2] # ""
                  THEN AddSong(acc, team, player, Head(pairs)[1], Head(pairs)[2], client)
                  ELSE acc,
                  team, player, Tail(pairs), client)

RECURSIVE WidgetPlayers(_, _, _, _)
\* "for entry in player_entries": "if player_first_name and player_last_name"
WidgetPlayers(acc, entries, team, client) ==
  IF entries = <<>> \/ acc.raised THEN acc
  ELSE WidgetPlayers(IF Head(entries).named
                     THEN EntrySongs(acc, team, Head(entries).player,
                                     Head(entries).pairs, client)
                     ELSE acc,
                     Tail(entries), team, client)

Method2(widget, team, client, answers) ==
  IF ~widget.found THEN Raise(Begin(answers))
  ELSE WidgetPlayers(Begin(answers), widget.entries, team, client)

(* ------------------ strategy 3: a simple HTML table -------------------- *)

\* str.strip() on the texts a cell can hold
Strip(text) == IF text = " " THEN "" ELSE text

\* str.upper() on the texts a header can hold
Upper(text) ==
  CASE text \in { "Player", "player" } -> "PLAYER"
    [] text = "Song" -> "SONG"
    [] text = "Artist" -> "ARTIST"
    [] text = "Name" -> "NAME"
    [] text = "Title" -> "TITLE"
    [] OTHER -> text

\* list.index, counted from 1; 0 when the text is not in the list
IndexOf(texts, text) ==
  IF \E i \in 1 .. Len(texts) : texts[i] = text
  THEN CHOOSE i \in 1 .. Len(texts) :
         texts[i] = text /\ \A j \in 1 .. i - 1 : texts[j] # text
  ELSE 0

RECURSIVE TableRows_ForgetsPlayer(_, _, _, _, _, _, _, _)
\* TableRows with current_player taken over only from a row that has a song
TableRows_ForgetsPlayer(acc, rows, current_player, player_idx, song_idx, artist_idx, team, client) ==
  IF rows = <<>> \/ acc.raised THEN acc
  ELSE LET cells == Head(rows)
       IN  IF Len(cells) < 2
           THEN TableRows_ForgetsPlayer(acc, Tail(rows), current_player, player_idx,
                                        song_idx, artist_idx, team, client)
           ELSE IF Len(cells) < player_idx
           THEN Raise(acc)
           ELSE LET player_cell == Strip(cells[player_idx])
                    player == IF player_cell # "" THEN player_cell ELSE current_player
                    song_name == IF Len(cells) >= song_idx
                                 THEN Strip(cells[song_idx]) ELSE ""
                    artist_name == IF artist_idx # 0 /\ Len(cells) >= artist_idx
                                   THEN Strip(cells[artist_idx]) ELSE ""
                IN  TableRows_ForgetsPlayer(
                      IF player # "" /\ song_name # ""
                      THEN AddSong(acc, team, player, song_name, artist_name, client)
                      ELSE acc,
                      Tail(rows),
                      IF song_name # "" THEN player ELSE current_player,
                      player_idx, song_idx, artist_idx, team, client)

RECURSIVE TableRows(_, _, _, _, _, _, _, _)
\* "for row in rows": current_player is "" for None
TableRows(acc, rows, current_player, player_idx, song_idx, artist_idx, team, client) ==
  IF rows = <<>> \/ acc.raised THEN acc
  ELSE LET cells == Head(rows)
       IN  IF Len(cells) < 2
           THEN TableRows(acc, Tail(rows), current_player, player_idx, song_idx,
                          artist_idx, team, client)
           ELSE IF Len(cells) < player_idx
           THEN Raise(acc)
           ELSE LET player_cell == Strip(cells[player_idx])
                    player == IF player_cell # "" THEN player_cell ELSE current_player
                    song_name == IF Len(cells) >= song_idx
                                 THEN Strip(cells[song_idx]) ELSE ""
                    artist_name == IF artist_idx # 0 /\ Len(cells) >= artist_idx
                                   THEN Strip(cells[artist_idx]) ELSE ""
                IN  TableRows(IF player # "" /\ song_name # ""
                              THEN AddSong(acc, team, player, song_name,
                                           artist_name, client)
                              ELSE acc,
                              Tail(rows), player, player_idx, song_idx,
                              artist_idx, team, client)

RECURSIVE Tables(_, _, _, _)
\* "for table in tables", left at the first table that gave songs
Tables(acc, tables, team, client) ==
  IF tables = <<>> \/ acc.raised THEN acc
  ELSE LET table == Head(tables)
           header_texts == [ i \in 1 .. Len(table.headers) |->
                               Upper(Strip(table.headers[i])) ]
           has(text) == IndexOf(header_texts, text) # 0
       IN  IF has("PLAYER") /\ has("SONG")
           THEN LET after == TableRows(acc, table.rows, "",
                                       IndexOf(header_texts, "PLAYER"),
                                       IndexOf(header_texts, "SONG"),
                                       IndexOf(header_texts, "ARTIST"),
                                       team, client)
                IN  IF after.songs # <<>> THEN after
                    ELSE Tables(after, Tail(tables), team, client)
           ELSE Tables(acc, Tail(tables), team, client)

Method3(tables, team, client, answers) ==
  Tables(Begin(answers), tables, team, client)

(* --------------------- one run of main(), step by step ----------------- *)

\* sys.argv: the script, then the client id and secret, then a flag
Argvs ==
  { <<"scraper.py">>, <<"scraper.py", "id">>, <<"scraper.py", "id", "secret">>,
    <<"scraper.py", "id", "secret", "--verbose">>,
    <<"scraper.py", "id", "secret", "--dry-run">> }

\* "if len(sys.argv) < 3" lets the run go on
ArgsOk(argc) == argc >= 3

\* get_database_engine with its exception swallowed
AfterEngine_Swallowed(connected) == "schema"

\* engine = get_database_engine(): the engine, or the exception ends main
AfterEngine(connected) == IF connected THEN "schema" ELSE "raised"

\* "if not songs" left out
ShouldTry_Always(collected) == TRUE

\* "if not songs" before strategies 2 and 3
ShouldTry(collected) == collected = <<>>

NoItems == [raised |-> FALSE, items |-> <<>>]

\* the searches a strategy makes on a container: those it makes when every
\* search returns no item
SearchesDue(result) ==
  Cardinality({ i \in 1 .. Len(result.events) : result.events[i].ev = "search" })

Unanswered == [ i \in 1 .. 2 * MaxEntries |-> NoItems ]

\* the team whose page scrape_team_songs is working on
this_team == team_links[Len(processed) + 1]

ScrapeInit ==
  /\ ScrapeIdle
  /\ db = {}
  /\ clock = 1
  /\ pc = "main"
  /\ existing_songs = EmptyMapping
  /\ current_songs = <<>>
  /\ new_songs = <<>>
  /\ changed_songs = <<>>
  /\ unchanged_songs = <<>>
  /\ outcome = "none"
  /\ db_before = {}
  /\ rerun = FALSE
  /\ rolled_back = {}

\* main: the argument check, sys.exit(1) when it fails.  Of the flags main
\* reads only --verbose, which changes what is logged
CheckArgs ==
  /\ pc = "main"
  /\ \E argv \in Argvs :
       /\ pc' = IF ArgsOk(Len(argv)) THEN "engine" ELSE "exit1"
       /\ startup' = [startup EXCEPT
                        !.args = Len(argv) >= 3,
                        !.dry_run = \E i \in 1 .. Len(argv) : argv[i] = "--dry-run"]
  /\ UNCHANGED << store_vars, sp, team_links, all_songs, tpc, attempt,
                  team_songs, fetch_log, events, ran, yields, page_read,
                  processed >>

\* main: engine = get_database_engine()
GetEngine ==
  /\ pc = "engine"
  /\ \E connected \in BOOLEAN :
       /\ pc' = AfterEngine(connected)
       /\ startup' = [startup EXCEPT !.engine = connected]
  /\ UNCHANGED << store_vars, sp, team_links, all_songs, tpc, attempt,
                  team_songs, fetch_log, events, ran, yields, page_read,
                  processed >>

\* main: verify_database_schema(engine), which raises ValueError
VerifySchema ==
  /\ pc = "schema"
  /\ \E valid \in BOOLEAN :
       /\ pc' = IF valid THEN "connected" ELSE "raised"
       /\ startup' = [startup EXCEPT !.schema = valid]
  /\ UNCHANGED << store_vars, sp, team_links, all_songs, tpc, attempt,
                  team_songs, fetch_log, events, ran, yields, page_read,
                  processed >>

\* scrape_all_teams up to its loop: the catalog client or None, the team
\* links, and "return []" when there are none
ScrapeAllTeams ==
  /\ pc = "read"
  /\ \E client \in BOOLEAN, links \in TeamLists :
       /\ sp' = client
       /\ team_links' = links
       /\ IF links = <<>>
          THEN /\ current_songs' = <<>>
               /\ pc' = "scraped"
               /\ tpc' = "idle"
          ELSE /\ current_songs' = current_songs
               /\ pc' = "scraping"
               /\ tpc' = "fetch"
  /\ all_songs' = <<>>
  /\ UNCHANGED << db, clock, existing_songs, new_songs, changed_songs,
                  unchanged_songs, outcome, db_before, rerun, rolled_back >>
  /\ UNCHANGED << startup, attempt, team_songs, fetch_log, events, ran,
                  yields, page_read, processed >>

\* scrape_team_songs: one pass of "for attempt in range(max_retries)"
Fetch ==
  /\ pc = "scraping" /\ tpc = "fetch"
  /\ \E ok \in BOOLEAN :
       LET got == Append(fetch_log, GetEvent(this_team, ok))
       IN  IF ok
           THEN /\ fetch_log' = got
                /\ tpc' = "m1"
                /\ attempt' = attempt
           ELSE IF attempt = max_retries - 1
           THEN /\ fetch_log' = got
                /\ tpc' = "return"
                /\ attempt' = attempt
           ELSE /\ fetch_log' = Append(got, SleepEvent(1000 * Backoff(attempt)))
                /\ tpc' = "fetch"
                /\ attempt' = attempt + 1
  /\ UNCHANGED << pc, store_vars, startup, sp, team_links, all_songs,
                  team_songs, events, ran, yields, page_read, processed >>

\* what a strategy leaves behind: its songs appended to songs
Collect(result, method, container) ==
  /\ team_songs' = team_songs \o result.songs
  /\ events' = events \o result.events
  /\ ran' = Append(ran, [method |-> method, raised |-> result.raised])
  /\ yields' = Append(yields, result.songs)
  /\ page_read' = <<container>>

\* scrape_team_songs: Method 1.  The fetch loop is over: its variable is not
\* read again, and its log ends here
TryMethod1 ==
  /\ pc = "scraping" /\ tpc = "m1"
  /\ \E forge \in ForgeListsOf(this_team) :
       \E answers \in [ 1 .. SearchesDue(Method1(forge, this_team, sp, Unanswered)) -> Answers ] :
         Collect(Method1(forge, this_team, sp, answers), 1, forge)
  /\ tpc' = "m2"
  /\ attempt' = 0
  /\ fetch_log' = <<>>
  /\ UNCHANGED << pc, store_vars, startup, sp, team_links, all_songs,
                  processed >>

\* scrape_team_songs: Method 2, tried when songs is still empty
TryMethod2 ==
  /\ pc = "scraping" /\ tpc = "m2"
  /\ IF ShouldTry(team_songs)
     THEN \E widget \in WidgetTablesOf(this_team) :
            \E answers \in [ 1 .. SearchesDue(Method2(widget, this_team, sp, Unanswered)) -> Answers ] :
              Collect(Method2(widget, this_team, sp, answers), 2, widget)
     ELSE UNCHANGED << team_songs, events, ran, yields, page_read >>
  /\ tpc' = "m3"
  /\ UNCHANGED << pc, store_vars, startup, sp, team_links, all_songs,
                  attempt, fetch_log, processed >>

\* scrape_team_songs: Method 3, tried when songs is still empty
TryMethod3 ==
  /\ pc = "scraping" /\ tpc = "m3"
  /\ IF ShouldTry(team_songs)
     THEN \E tables \in TableListsOf(this_team) :
            \E answers \in [ 1 .. SearchesDue(Method3(tables, this_team, sp, Unanswered)) -> Answers ] :
              Collect(Method3(tables, this_team, sp, answers), 3, tables)
     ELSE UNCHANGED << team_songs, events, ran, yields, page_read >>
  /\ tpc' = "return"
  /\ UNCHANGED << pc, store_vars, startup, sp, team_links, all_songs,
                  attempt, fetch_log, processed >>

\* "all_songs = songs" in place of extend
Extend_Replace(collected, found) == found

\* all_songs.extend(songs)
Extend(collected, found) == collected \o found

\* scrape_team_songs returns songs, or [] from its outer handler;
\* scrape_all_teams extends all_songs and goes to the next team, or returns
TeamReturn ==
  /\ pc = "scraping" /\ tpc = "return"
  /\ all_songs' = Extend(all_songs, team_songs)
  /\ processed' = Append(processed, [team |-> this_team, fetched |-> ran # <<>>,
                                     found |-> Len(team_songs)])
  /\ attempt' = 0
  /\ team_songs' = <<>>
  /\ fetch_log' = <<>>
  /\ events' = <<>>
  /\ ran' = <<>>
  /\ yields' = <<>>
  /\ page_read' = <<>>
  /\ IF Len(processed') = Len(team_links)
     THEN /\ current_songs' = all_songs'
          /\ pc' = "scraped"
          /\ tpc' = "idle"
     ELSE /\ current_songs' = current_songs
          /\ pc' = pc
          /\ tpc' = "fetch"
  /\ UNCHANGED << db, clock, existing_songs, new_songs, changed_songs,
                  unchanged_songs, outcome, db_before, rerun, rolled_back >>
  /\ UNCHANGED << startup, sp, team_links >>

ScrapeNext ==
  \/ CheckArgs \/ GetEngine \/ VerifySchema \/ GetExisting \/ ScrapeAllTeams
  \/ Fetch \/ TryMethod1 \/ TryMethod2 \/ TryMethod3 \/ TeamReturn
  \/ Detect \/ Store

ScrapeSpec == ScrapeInit /\ [][ScrapeNext]_vars

(* ------------------------ vocabulary of the claims --------------------- *)

KeyOf(e) == <<e.team, e.player>>

TripleOf(e) == <<e.team, e.player, e.song_name>>

AllKeys == { <<s[1], s[2]>> : s \in PageSongs }

Range(seq) == { seq[i] : i \in DOMAIN seq }

\* the fields scrape_team_songs gives an entry
ScrapedFields ==
  { "team", "player", "song_name", "song_artist", "spotify_uri", "explicit" }

\* e carries the scraped entry s, field by field
Carries(e, s) == \A f \in ScrapedFields : e[f] = s[f]

\* how many entries of seq carry s
Count(seq, s) == Cardinality({ i \in DOMAIN seq : Carries(seq[i], s) })

CurrentNames(rows, key) ==
  { r.song_name : r \in { x \in rows : KeyOf(x) = key /\ x.is_current } }

ScrapedNames(songs, key) ==
  { e.song_name : e \in { x \in Range(songs) : KeyOf(x) = key } }

RowsOf(rows, triple) == { r \in rows : TripleOf(r) = triple }

\* the run has classified its snapshot
Classified == pc \in { "detected", "done", "failed" }

\* the storage as the run found it
StorageAtStart == IF pc \in { "done", "failed" } THEN db_before ELSE db

\* the run read the current rows without an error
FaithfulRead == existing_songs = get_existing_songs(StorageAtStart)

\* the storage after the deactivations and the INSERT of the run's
\* transaction, before the UPDATEs of the unchanged entries
AfterInsert ==
  InsertAll(DeactivateAll(db_before, changed_songs, clock),
            new_songs \o changed_songs, clock).rows

(* -------------------------------- C1 ----------------------------------- *)

\* C1: after a successful commit, for every (team, player) the song names of
\* the rows with is_current = TRUE are the song names of the player in the
\* latest scrape.  Stated here for the players the latest scrape shows, in a
\* run that read the current rows without an error: the claim asks for this
\* and more, and the code already fails this much.
C1_CurrentIsLatestScrape ==
  (pc = "done" /\ FaithfulRead) =>
    \A key \in { KeyOf(e) : e \in Range(current_songs) } :
      CurrentNames(db, key) = ScrapedNames(current_songs, key)

(* -------------------------------- C2 ----------------------------------- *)

\* C2: detect_song_changes puts every scraped entry in exactly one of new,
\* changed, unchanged: every entry of the three lists is a scraped entry, each
\* scraped entry occurs in the three lists together as often as in the
\* snapshot, and the lengths add up to the length of the snapshot.
C2_Partition ==
  Classified =>
    /\ Len(new_songs) + Len(changed_songs) + Len(unchanged_songs)
         = Len(current_songs)
    /\ \A e \in Range(new_songs) \cup Range(changed_songs) \cup Range(unchanged_songs) :
         \E s \in Range(current_songs) : Carries(e, s)
    /\ \A s \in Range(current_songs) :
         Count(new_songs, s) + Count(changed_songs, s) + Count(unchanged_songs, s)
           = Count(current_songs, s)

\* a snapshot of two entries of one player, one classified changed and the
\* other unchanged
C2_Witness ==
  /\ pc = "detected"
  /\ Len(changed_songs) = 1
  /\ Len(unchanged_songs) = 1

(* -------------------------------- C3 ----------------------------------- *)

\* e is the scraped entry s stamped as a row first seen on the scrape date
StampedNew(e, s) ==
  /\ Carries(e, s)
  /\ e.first_seen_date = scrape_date
  /\ e.last_updated_date = scrape_date
  /\ e.is_current = TRUE

\* C3: a scraped entry of a (team, player) with no current rows in storage is
\* classified new, with first_seen_date = last_updated_date = scrape_date and
\* is_current = TRUE (and is in neither other list); after a successful
\* commit the rows of that player are exactly the rows of the player's
\* scraped entries, one per song name, current and dated scrape_date.
C3_NewPlayer ==
  Classified =>
    \A key \in AllKeys :
      CurrentNames(StorageAtStart, key) = {} =>
        /\ \A s \in Range(current_songs) :
             KeyOf(s) = key =>
               /\ \E e \in Range(new_songs) : StampedNew(e, s)
               /\ \A e \in Range(changed_songs) \cup Range(unchanged_songs) :
                    KeyOf(e) # key
        /\ pc = "done" =>
             LET stored == { r \in db : KeyOf(r) = key }
             IN  /\ { r.song_name : r \in stored } = ScrapedNames(current_songs, key)
                 /\ Cardinality(stored) = Cardinality(ScrapedNames(current_songs, key))
                 /\ \A r \in stored :
                      /\ r.is_current
                      /\ r.first_seen_date = scrape_date
                      /\ r.last_updated_date = scrape_date
                      /\ \E s \in Range(current_songs) : Carries(r, s)

\* a player without rows is scraped while another player has rows, and the
\* commit succeeds
C3_Witness ==
  /\ pc = "done"
  /\ db_before # {}
  /\ \E key \in AllKeys :
       /\ CurrentNames(db_before, key) = {}
       /\ ScrapedNames(current_songs, key) # {}

(* -------------------------------- C4 ----------------------------------- *)

\* the entry of unchanged that the scraped entry s became
StampedUnchanged(e, s) ==
  /\ Carries(e, s)
  /\ e.last_updated_date = scrape_date
  /\ DOMAIN e = ScrapedFields \cup { "last_updated_date" }

\* the row r is matched by an entry of unchanged
Refreshed(r) == \E u \in Range(unchanged_songs) : TripleOf(u) = TripleOf(r)

\* what the UPDATEs of the unchanged entries did to the storage they found
UnchangedFrame ==
  /\ { TripleOf(r) : r \in db } = { TripleOf(r) : r \in AfterInsert }
  /\ Cardinality(db) = Cardinality(AfterInsert)
  /\ \A r \in AfterInsert :
       \E r2 \in db :
         /\ TripleOf(r2) = TripleOf(r)
         /\ r2.first_seen_date = r.first_seen_date
         /\ r2.is_current = r.is_current
         /\ r2.song_artist = r.song_artist
         /\ r2.spotify_uri = r.spotify_uri
         /\ r2.explicit = r.explicit
         /\ IF Refreshed(r) THEN r2.last_updated_date = scrape_date ELSE r2 = r

\* a scraped entry whose song name is one of the player's existing current
\* song names is in unchanged, carrying no first_seen_date
UnchangedClassified ==
  \A s \in Range(current_songs) :
    (/\ KeyOf(s) \in DOMAIN existing_songs
     /\ \E x \in existing_songs[KeyOf(s)] : x.song_name = s.song_name)
    => /\ \E e \in Range(unchanged_songs) : StampedUnchanged(e, s)
       /\ \A e \in Range(new_songs) \cup Range(changed_songs) :
            TripleOf(e) # TripleOf(s)

\* no step changes the first_seen_date of a stored row
FirstSeenKept ==
  \A r \in db : \A r2 \in db' :
    TripleOf(r2) = TripleOf(r) => r2.first_seen_date = r.first_seen_date

C5_ChangedSong ==
  Classified =>
    /\ \A s \in Range(current_songs) :
         (/\ KeyOf(s) \in DOMAIN existing_songs
          /\ \A x \in existing_songs[KeyOf(s)] : x.song_name # s.song_name)
         => \E e \in Range(changed_songs) : StampedNew(e, s)
    /\ pc = "done" =>
         \A c \in Range(changed_songs) :
           /\ \A r \in db_before :
                (KeyOf(r) = KeyOf(c) /\ r.is_current) =>
                  /\ RowsOf(db, TripleOf(r)) # {}
                  /\ \A r2 \in RowsOf(db, TripleOf(r)) : ~r2.is_current
           /\ \E r2 \in RowsOf(db, TripleOf(c)) :
                /\ r2.is_current
                /\ r2.first_seen_date = scrape_date
                /\ r2.last_updated_date = scrape_date

\* a changed song is committed
C5_Witness ==
  /\ pc = "done"
  /\ changed_songs # <<>>

(* -------------------------------- C6 ----------------------------------- *)

\* C6: the deactivations of a commit come before its INSERT, so no row the
\* commit inserts is deactivated by it: when the commit ends, every entry of
\* new and changed has a stored row with is_current = TRUE.
C6_InsertedStayCurrent ==
  pc = "done" =>
    \A e \in Range(new_songs \o changed_songs) :
      /\ RowsOf(db, TripleOf(e)) # {}
      /\ \A r \in RowsOf(db, TripleOf(e)) : r.is_current

\* one commit inserts a new player's song and a changed song
C6_Witness ==
  /\ pc = "done"
  /\ new_songs # <<>>
  /\ changed_songs # <<>>

(* -------------------------------- C7 ----------------------------------- *)

\* C7: inserting a row whose (team, player, song_name) is already stored (a
\* song deactivated in an earlier run that comes back) updates the stored row
\* instead of duplicating it or failing: the commit succeeds, and afterwards
\* there is exactly one row of that triple and it is current.  Runs that the
\* database ended with an operational error are left aside.
C7_ReinsertUpdates ==
  (pc \in { "done", "failed" } /\ outcome # "operational_error") =>
    \A e \in Range(new_songs \o changed_songs) :
      (\E r \in db_before : TripleOf(r) = TripleOf(e) /\ ~r.is_current) =>
        /\ pc = "done"
        /\ Cardinality(RowsOf(db, TripleOf(e))) = 1
        /\ \A r \in RowsOf(db, TripleOf(e)) : r.is_current

(* -------------------------------- C9 ----------------------------------- *)

\* (team, player, song_name, is_current) of every stored row
Flags(rows) == { <<TripleOf(r), r.is_current>> : r \in rows }

\* C9: a run that scrapes the snapshot the previous run committed succeeds
\* and leaves the stored rows and their is_current flags as the previous run
\* left them.  Runs that read the current rows with an error, or that the
\* database ended with an operational error, are left aside.
C9_RerunIsSafe ==
  (/\ pc \in { "done", "failed" }
   /\ rerun
   /\ FaithfulRead
   /\ outcome # "operational_error")
  => /\ pc = "done"
     /\ Flags(db) = Flags(db_before)

(* -------------------------------- C10 ---------------------------------- *)

\* every stored row is still stored after the step, changed at most in
\* is_current (to FALSE), last_updated_date and updated_at (forward)
RowsKept ==
  \A r \in db :
    \E r2 \in db' :
      /\ TripleOf(r2) = TripleOf(r)
      /\ r2.song_artist = r.song_artist
      /\ r2.spotify_uri = r.spotify_uri
      /\ r2.explicit = r.explicit
      /\ r2.first_seen_date = r.first_seen_date
      /\ r2.is_current => r.is_current
      /\ r2.last_updated_date >= r.last_updated_date
      /\ r2.updated_at >= r.updated_at

\* C10: no run deletes a stored row: the stored triples never shrink, and a
\* stored row changes only by is_current becoming FALSE and by
\* last_updated_date and updated_at advancing.
C10_NeverDeleted == [][RowsKept]_vars

\* a superseded row is still stored after a later run refreshed another row
C10_Witness ==
  /\ pc = "done"
  /\ \E r \in db : ~r.is_current
  /\ \E r \in db : r.is_current /\ r.first_seen_date < r.last_updated_date

(* -------------------------------- C11 ---------------------------------- *)

\* C11: the writes of one batch are atomic.  When a statement of
\* store_songs_with_change_tracking raises, the storage is as the run found
\* it, whatever the transaction had written by then, and the run has failed
\* with the error; a run that ends as done has committed the whole batch:
\* every entry of new and changed has its row, and every unchanged entry's
\* row carries the scrape date.
C11_AtomicCommit ==
  /\ pc = "failed" =>
       /\ db = db_before
       /\ outcome \in { "integrity_error", "operational_error" }
  /\ pc = "done" =>
       /\ outcome = "ok"
       /\ \A e \in Range(new_songs \o changed_songs) : RowsOf(db, TripleOf(e)) # {}
       /\ \A u \in Range(unchanged_songs) :
            \A r \in RowsOf(db, TripleOf(u)) : r.last_updated_date = scrape_date

\* a statement raised when the transaction had deactivated a player's current
\* rows and not yet inserted the new one
C11_Witness ==
  /\ pc = "failed"
  /\ rolled_back # db_before
  /\ \E key \in AllKeys :
       /\ CurrentNames(db_before, key) # {}
       /\ CurrentNames(rolled_back, key) = {}

(* -------------------------------- C19 ---------------------------------- *)

\* the lists of d that carry the scraped entry s
ClassesOf(d, s) ==
  { c \in { "new", "changed", "unchanged" } : Count(d[c], s) > 0 }

\* the orders a list of n entries can be scraped in
Orders(n) ==
  { p \in [1 .. n -> 1 .. n] : \A i, j \in 1 .. n : i # j => p[i] # p[j] }

\* the same entries, each as often, in both lists
SameEntries(a, b) ==
  \A e \in Range(a) \cup Range(b) :
    Cardinality({ i \in DOMAIN a : a[i] = e }) = Cardinality({ i \in DOMAIN b : b[i] = e })

\* C19: classification is per song.  The list an entry is put in is the list
\* it is put in when it is classified alone against the same existing state,
\* and scraping the entries in another order gives the same three lists up to
\* order; so two entries of one player can end one unchanged and the other
\* changed.
C19_PerSongClass ==
  Classified =>
    LET d == [new |-> new_songs, changed |-> changed_songs,
              unchanged |-> unchanged_songs]
    IN  /\ \A s \in Range(current_songs) :
             ClassesOf(d, s)
               = ClassesOf(detect_song_changes(<<s>>, existing_songs, scrape_date), s)
        /\ \A p \in Orders(Len(current_songs)) :
             LET permuted == [i \in 1 .. Len(current_songs) |-> current_songs[p[i]]]
                 dp == detect_song_changes(permuted, existing_songs, scrape_date)
             IN  /\ SameEntries(dp.new, d.new)
                 /\ SameEntries(dp.changed, d.changed)
                 /\ SameEntries(dp.unchanged, d.unchanged)

\* two songs of one player are scraped, the first classified changed and the
\* second unchanged
C19_Witness ==
  /\ pc = "detected"
  /\ Len(current_songs) = 2
  /\ KeyOf(current_songs[1]) = KeyOf(current_songs[2])
  /\ \E c \in Range(changed_songs) : Carries(c, current_songs[1])
  /\ \E u \in Range(unchanged_songs) : Carries(u, current_songs[2])

(* ---------------- vocabulary of the claims on the scraper -------------- *)

\* the positions of a log that hold an event of a kind
EventsOf(log, kind) == { i \in 1 .. Len(log) : log[i].ev = kind }

\* the fetch loop made attempt n (counted from 1) at position 2n - 1 of its
\* log and slept at position 2n - 2, and it stopped at the first success
FetchLogShape ==
  /\ \A i \in 1 .. Len(fetch_log) :
       fetch_log[i].ev = (IF i % 2 = 1 THEN "get" ELSE "sleep")
  /\ \A i \in EventsOf(fetch_log, "get") :
       /\ fetch_log[i].team = this_team
       /\ fetch_log[i].ok => i = Len(fetch_log)
  /\ Cardinality(EventsOf(fetch_log, "get")) <= max_retries

\* C12, as stated: at most 3 attempts, none after a success, and the delay
\* before attempt n is 2^(n-1) seconds
C12_DelayFromTwoSeconds ==
  pc = "scraping" =>
    /\ FetchLogShape
    /\ \A n \in 2 .. max_retries :
         2 * n - 2 \in EventsOf(fetch_log, "sleep") =>
           fetch_log[2 * n - 2].ms = 1000 * 2 ^ (n - 1)

\* C12, amended: the fetch makes at most 3 attempts per team and none after
\* a successful one, and the delay slept before attempt n (n >= 2) is
\* 2^(n-2) seconds: one second before the second attempt, two before the third
C12_DelayFromOneSecond ==
  pc = "scraping" =>
    /\ FetchLogShape
    /\ \A n \in 2 .. max_retries :
         2 * n - 2 \in EventsOf(fetch_log, "sleep") =>
           fetch_log[2 * n - 2].ms = 1000 * 2 ^ (n - 2)

\* the third attempt was made, after two sleeps, and succeeded
C12_Witness ==
  /\ pc = "scraping" /\ tpc = "m1"
  /\ Len(fetch_log) = 2 * max_retries - 1
  /\ fetch_log[Len(fetch_log)].ok

\* the records of a team in a list of songs
RecordsOf(collected, t) ==
  Cardinality({ i \in 1 .. Len(collected) : collected[i].team = t })

\* scrape_all_teams has returned
ScrapeOver == pc \in { "scraped", "detected", "done", "failed" }

\* C13: a team whose fetch failed on all three attempts gives no record and
\* the loop goes on: every team of the list is fetched and processed, the
\* records of the others are kept, and the run ends well when the store commits
C13_FailedFetchSkipsTeam ==
  /\ pc = "scraping" /\ tpc = "return" /\ ran = <<>> =>
       /\ team_songs = <<>>
       /\ Cardinality(EventsOf(fetch_log, "get")) = max_retries
       /\ \A i \in EventsOf(fetch_log, "get") : ~fetch_log[i].ok
  /\ \A i \in 1 .. Len(processed) :
       /\ processed[i].team = team_links[i]
       /\ ~processed[i].fetched => processed[i].found = 0
       /\ RecordsOf(all_songs, processed[i].team) = processed[i].found
  /\ ScrapeOver => /\ Len(processed) = Len(team_links)
                   /\ current_songs = all_songs
  /\ pc = "scraping" => Len(processed) < Len(team_links)
  /\ pc = "done" => outcome = "ok"

\* the first team failed all its fetches, the second gave songs, and the
\* run committed them
C13_Witness ==
  /\ pc = "done"
  /\ Len(processed) = 2
  /\ ~processed[1].fetched
  /\ processed[2].fetched /\ processed[2].found > 0
  /\ \A s \in Range(current_songs) : RowsOf(db, TripleOf(s)) # {}

\* the (player, song, artist) texts of a list of records
Texts(collected) ==
  [ i \in 1 .. Len(collected) |->
      << collected[i].player, collected[i].song_name, collected[i].song_artist >> ]

RECURSIVE WidgetTexts(_)
\* what a page that matches strategy 2 shows: the songs of its named
\* players that have a name and an artist
WidgetTexts(entries) ==
  IF entries = <<>> THEN <<>>
  ELSE LET entry == Head(entries)
           shown == SelectSeq(entry.pairs, LAMBDA pair : pair[1] # "" /\ pair[2] # "")
       IN  (IF entry.named
            THEN [ i \in 1 .. Len(shown) |-> << entry.player, shown[i][1], shown[i][2] >> ]
            ELSE <<>>) \o WidgetTexts(Tail(entries))

\* the strategies that have run are 1, 2, .. in this order
RanInOrder == \A i \in 1 .. Len(ran) : ran[i].method = i

\* the strategy that ran last
last == Len(ran)

\* C14: the strategies run in the order 1, 2, 3, each only when those before
\* it yielded no song; the result is what the first one that yielded
\* collected, and none runs after it.  When strategy 1 yields nothing, raising
\* or not, and the page shows songs in the walkup-music widget, the result is
\* those songs
C14_FirstYieldWins ==
  pc = "scraping" =>
    /\ RanInOrder
    /\ Len(yields) = Len(ran)
    /\ \A i \in 1 .. last - 1 : yields[i] = <<>>
    /\ team_songs = (IF ran = <<>> THEN <<>> ELSE yields[last])
    /\ tpc = "m2" => last = 1
    /\ tpc = "m3" => last = (IF yields[1] # <<>> THEN 1 ELSE 2)
    /\ tpc = "return" /\ ran # <<>> =>
         last = (IF yields[1] # <<>> THEN 1 ELSE IF yields[2] # <<>> THEN 2 ELSE 3)
    /\ tpc \in { "m3", "return" } /\ last = 2 =>
         /\ Texts(team_songs) = WidgetTexts(page_read[1].entries)
         /\ \A i \in 1 .. Len(team_songs) : team_songs[i].team = this_team

\* strategy 1 extracted nothing without raising, strategy 2 found songs, and
\* strategy 3 was passed over
C14_Witness ==
  /\ pc = "scraping" /\ tpc = "return"
  /\ last = 2
  /\ ~ran[1].raised
  /\ Len(team_songs) > 1

RECURSIVE SongsBefore(_)
\* the songs a forge list shows before its first entry without a heading
SongsBefore(players) ==
  IF players = <<>> \/ ~Head(players).intact THEN 0
  ELSE Len(Head(players).pairs) + SongsBefore(Tail(players))

\* scrape_team_songs is at its return: after the strategies, or in its outer
\* handler after the last fetch failed
AtReturn == pc = "scraping" /\ tpc = "return"

\* the step of scrape_team_songs that ran last raised: the last fetch, or
\* the strategy after which no other was tried
LastStepRaised == ran = <<>> \/ ran[last].raised

\* the call returns to the loop of scrape_all_teams, which goes on
ReturnsToCaller ==
  AtReturn => /\ pc' \in { "scraping", "scraped" }
              /\ processed' = Append(processed, [team |-> this_team,
                                                 fetched |-> ran # <<>>,
                                                 found |-> Len(team_songs)])
              /\ pc' = "scraping" => tpc' = "fetch"

\* C15, as stated: no exception leaves scrape_team_songs, and its result is
\* empty when no strategy succeeds and when a step inside it raises, here
\* the step that ran last
C15_EmptyWhenAnyStepRaises ==
  AtReturn /\ (LastStepRaised \/ \A i \in 1 .. last : yields[i] = <<>>) =>
    team_songs = <<>>

\* C15, amended: no exception leaves scrape_team_songs; its result is empty
\* when no strategy yields a song and when the fetch raises; an exception
\* inside a strategy ends that strategy only, and the songs it had collected
\* stay in the result; the run goes on with the next team
C15_NeverRaises ==
  /\ [](AtReturn /\ (ran = <<>> \/ \A i \in 1 .. last : yields[i] = <<>>) =>
          team_songs = <<>>)
  /\ [](pc = "scraping" /\ tpc = "m2" /\ page_read[1].found =>
          Len(team_songs) = SongsBefore(page_read[1].players))
  /\ [](pc = "raised" => processed = <<>> /\ team_links = <<>>)
  /\ [][ReturnsToCaller]_vars

\* strategy 1 raised at a later entry of the page of the second team, and
\* the song it had collected is the result
C15_Witness ==
  /\ AtReturn
  /\ last = 1 /\ ran[1].raised
  /\ team_songs # <<>>
  /\ Len(processed) = 1

\* the searches of the catalog made for the team so far, in order
Searches == SelectSeq(events, LAMBDA e : e.ev = "search")

\* a record has a song name and an artist name
Complete(record) == record.song_name # "" /\ record.song_artist # ""

\* a record carries no track of the catalog
Unmatched(record) == record.spotify_uri = "None" /\ record.explicit = "None"

\* C16: no search is made with an empty song name or artist name, in any
\* strategy, and a record with an empty name carries None, None
C16_NoSearchOnIncomplete ==
  pc = "scraping" =>
    /\ \A i \in 1 .. Len(Searches) :
         Searches[i].song_name # "" /\ Searches[i].song_artist # ""
    /\ \A record \in Range(team_songs) \cup Range(all_songs) :
         ~Complete(record) => Unmatched(record)
    /\ Len(Searches) <= Len(SelectSeq(team_songs, Complete))

\* with a catalog client, strategy 3 gave a record without artist next to
\* a record that was searched
C16_Witness ==
  /\ AtReturn /\ sp
  /\ last = 3
  /\ \E record \in Range(team_songs) : record.song_artist = ""
  /\ Searches # <<>>

\* what a record carries after a search: the first item, or None, None
Carried(answer) ==
  IF answer.raised \/ answer.items = <<>>
  THEN [spotify_uri |-> "None", explicit |-> "None"]
  ELSE [spotify_uri |-> answer.items[1].uri, explicit |-> answer.items[1].explicit]

\* C17: every search, whatever it returned, is followed by the record of its
\* song: with None, None when it returned nothing or raised, with the uri
\* and the explicit flag of the first item otherwise; a search never ends
\* the strategy, so the later songs of the page get their records too
C17_SearchFailureIsSoft ==
  pc = "scraping" =>
    LET searched == SelectSeq(team_songs, Complete)
    IN  /\ sp => /\ Len(Searches) = Len(searched)
                 /\ \A k \in 1 .. Len(Searches) :
                      /\ searched[k].song_name = Searches[k].song_name
                      /\ searched[k].song_artist = Searches[k].song_artist
                      /\ searched[k].spotify_uri = Carried(Searches[k].answer).spotify_uri
                      /\ searched[k].explicit = Carried(Searches[k].answer).explicit
        /\ ~sp => /\ Searches = <<>>
                  /\ \A record \in Range(team_songs) : Unmatched(record)
        /\ tpc = "m2" /\ ran[1].raised =>
             \/ ~page_read[1].found
             \/ \E i \in 1 .. Len(page_read[1].players) : ~page_read[1].players[i].intact
        /\ tpc = "m2" /\ ~ran[1].raised =>
             Len(team_songs) = SongsBefore(page_read[1].players)

\* a search raised, and a later search of the same page found its track
C17_Witness ==
  /\ AtReturn
  /\ \E i \in 1 .. Len(Searches) : \E j \in i + 1 .. Len(Searches) :
       /\ Searches[i].answer.raised
       /\ Searches[j].answer.items # <<>>
       /\ Len(team_songs) >= j

\* C18: between any two searches of the catalog the rate-limit delay is
\* slept, whether the first of them succeeded or failed
C18_SleepBetweenSearches ==
  pc = "scraping" =>
    \A i \in EventsOf(events, "search") : \A j \in EventsOf(events, "search") :
      i < j => \E k \in i + 1 .. j - 1 :
                 events[k].ev = "sleep" /\ events[k].ms = RateLimitMs

\* scraping work was done: a page requested, a search made, a team gone
\* through, or main past its call of scrape_all_teams
ScrapingBegun ==
  \/ pc \in { "scraping", "scraped", "detected", "done", "failed" }
  \/ fetch_log # <<>> \/ events # <<>> \/ processed # <<>> \/ tpc # "idle"

\* C20: scraping work is done only after the arguments were given, the
\* database was connected and its schema verified; a run that misses one
\* of them ends at once, with exit code 1 or an exception, having fetched
\* no page, made no search and written nothing
C20_FailFast ==
  /\ ScrapingBegun => startup.args /\ startup.engine /\ startup.schema
  /\ pc = "exit1" => ~startup.args
  /\ pc = "raised" => ~startup.engine \/ ~startup.schema
  /\ pc \in { "exit1", "raised" } => /\ ~ScrapingBegun
                                      /\ db = {}
                                      /\ ~ENABLED ScrapeNext

\* the run had its arguments, the connection failed, and the run is over
C20_Witness ==
  /\ pc = "raised"
  /\ startup.args /\ ~startup.engine

(* -------------------------------- C21 ---------------------------------- *)

\* the run had something to write
BatchNotEmpty == new_songs \o changed_songs \o unchanged_songs # <<>>

\* C21: a single operational error of the database while the batch is
\* written does not fail the run: the write is tried again and the run ends
\* as done
C21_OperationalErrorRetried ==
  (pc \in { "done", "failed" } /\ BatchNotEmpty) => outcome # "operational_error"

(* -------------------------------- C22 ---------------------------------- *)

\* C22: a run invoked with --dry-run extracts and matches but writes
\* nothing: the stored rows after the run are the stored rows before it
C22_DryRunWritesNothing ==
  (startup.dry_run /\ pc \in { "done", "failed" }) => db = db_before

(* -------------------------------- C23 ---------------------------------- *)

\* a cell shows no text
Blank(text) == text \in { "", " " }

\* strategy 3 has read a page of one table whose first column is the player
\* and whose second is the song
OneSimpleTable ==
  /\ pc = "scraping" /\ tpc = "return" /\ last = 3
  /\ Len(page_read[1]) = 1
  /\ page_read[1][1].headers \in { <<"Player", "Song", "Artist">>, <<"player", "SONG">> }

\* the rows of that table
rows_read == page_read[1][1].rows

\* the row is a data row with a player cell that shows a name
NamesPlayer(i) == Len(rows_read[i]) >= 2 /\ ~Blank(rows_read[i][1])

\* the most recent row up to row i that names a player, 0 when there is none
Carrier(i) ==
  IF \E j \in 1 .. i : NamesPlayer(j)
  THEN CHOOSE j \in 1 .. i : NamesPlayer(j) /\ \A k \in j + 1 .. i : ~NamesPlayer(k)
  ELSE 0

\* the data rows with a song cell that shows a song and a player carried to them
RowsWithRecord ==
  SelectSeq([ i \in 1 .. Len(rows_read) |-> i ],
            LAMBDA i : /\ Len(rows_read[i]) >= 2
                       /\ ~Blank(rows_read[i][2])
                       /\ Carrier(i) # 0)

\* C23: in strategy 3 a data row without a player name is attributed to the
\* most recent row of the table that has one; a row before any player name
\* gives no record; a row without a song gives no record, but its player
\* name is carried to the rows after it
C23_PlayerCarriedForward ==
  OneSimpleTable =>
    /\ ~ran[3].raised
    /\ Len(team_songs) = Len(RowsWithRecord)
    /\ \A k \in 1 .. Len(RowsWithRecord) :
         /\ team_songs[k].player = rows_read[Carrier(RowsWithRecord[k])][1]
         /\ team_songs[k].song_name = rows_read[RowsWithRecord[k]][2]

\* a row names p2 and shows no song, and the next row shows song B and no
\* player: the one record is B of p2
C23_Witness ==
  /\ OneSimpleTable
  /\ rows_read = << <<"p2", "", "x">>, <<"", "B", "x">> >>
  /\ Len(team_songs) = 1
  /\ team_songs[1].player = "p2" /\ team_songs[1].song_name = "B"

(* -------------------------------- C24 ---------------------------------- *)

\* strategy 1 has just read a forge list
ForgeListRead == pc = "scraping" /\ tpc = "m2" /\ page_read[1].found

\* the entries of that list
players_read == page_read[1].players

\* the entries that lack the heading or the text element
Broken == { i \in 1 .. Len(players_read) : ~players_read[i].intact }

\* the songs entry i shows, as (player, song, artist) texts
EntryTexts(i) ==
  [ k \in 1 .. Len(players_read[i].pairs) |->
      << players_read[i].player, players_read[i].pairs[k][1],
         players_read[i].pairs[k][2] >> ]

RECURSIVE TextsUpTo(_)
\* the songs the entries 1 .. n show, in the order of the page
TextsUpTo(n) == IF n = 0 THEN <<>> ELSE TextsUpTo(n - 1) \o EntryTexts(n)

FirstBroken == CHOOSE i \in Broken : \A j \in Broken : i <= j

\* scrape_team_songs returns what strategy 1 collected, having tried no
\* other strategy
OnlyStrategy1 ==
  (AtReturn /\ ran # <<>> /\ yields[1] # <<>>) =>
    /\ last = 1
    /\ team_songs = yields[1]

\* C30: when strategy 1 meets an entry without its heading or text element
\* after it has collected a song, it raises; the songs of the entries before
\* that entry are the result of the team, the entries after it give no
\* record, and strategies 2 and 3 are not tried
C30_PartialForgeList ==
  /\ (ForgeListRead /\ Broken # {} /\ TextsUpTo(FirstBroken - 1) # <<>>) =>
       /\ ran[1].raised
       /\ Texts(team_songs) = TextsUpTo(FirstBroken - 1)
  /\ OnlyStrategy1

\* strategy 1 raised at the second entry with the song of the first
\* collected, and that song is what the team returns
C30_Witness ==
  /\ AtReturn
  /\ last = 1 /\ ran[1].raised
  /\ Len(page_read[1].players) = 2
  /\ ~page_read[1].players[2].intact
  /\ Len(team_songs) = Len(page_read[1].players[1].pairs)
  /\ team_songs # <<>>

(* -------------------------------- C25 ---------------------------------- *)

\* C25: when a player has an entry classified changed, the commit
\* deactivates every row of the player that was current, the rows of the
\* songs classified unchanged in the same batch among them: such a row ends
\* the commit with is_current = FALSE and last_updated_date = scrape_date
C25_UnchangedDeactivatedWithChanged ==
  pc = "done" =>
    \A c \in Range(changed_songs) :
      \A r \in db_before :
        (KeyOf(r) = KeyOf(c) /\ r.is_current) =>
          /\ RowsOf(db, TripleOf(r)) # {}
          /\ \A r2 \in RowsOf(db, TripleOf(r)) :
               /\ ~r2.is_current
               /\ Refreshed(r) => r2.last_updated_date = scrape_date

\* a player keeps one song and adds another on a later day: the row of the
\* kept song was current and is now superseded, dated with the scrape date
C25_Witness ==
  /\ pc = "done"
  /\ \E c \in Range(changed_songs) : \E u \in Range(unchanged_songs) :
       /\ KeyOf(c) = KeyOf(u)
       /\ \E r \in db_before :
            /\ TripleOf(r) = TripleOf(u)
            /\ r.is_current
            /\ r.last_updated_date < scrape_date
       /\ \E r2 \in RowsOf(db, TripleOf(u)) :
            ~r2.is_current /\ r2.last_updated_date = scrape_date

(* -------------------------------- C26 ---------------------------------- *)

\* the (team, player) pairs of the scraped batch
ScrapedKeys == { KeyOf(e) : e \in Range(current_songs) }

\* C26: a commit leaves the rows of every (team, player) that is not in the
\* scraped batch as they were, is_current, first_seen_date and
\* last_updated_date included
C26_AbsentPlayersUntouched ==
  pc = "done" =>
    \A r \in db_before : KeyOf(r) \notin ScrapedKeys => r \in db

\* a player with a current row is absent from a scrape in which a teammate
\* changed song, and the row is still current
C26_Witness ==
  /\ pc = "done"
  /\ \E c \in Range(changed_songs) :
       \E r \in db_before :
         /\ r.team = c.team
         /\ KeyOf(r) \notin ScrapedKeys
         /\ r.is_current
         /\ r \in db

(* -------------------------------- C27 ---------------------------------- *)

\* every row that is not current is still stored, not current, after the step
StaysSuperseded ==
  \A r \in db :
    ~r.is_current =>
      \E r2 \in db' :
        /\ TripleOf(r2) = TripleOf(r)
        /\ r2.first_seen_date = r.first_seen_date
        /\ ~r2.is_current

\* C27: is_current is monotone: no run sets the is_current of a stored row
\* back to TRUE
C27_NeverReactivated == [][StaysSuperseded]_vars

\* a run tried to insert a song whose superseded row is stored, and the row
\* is still not current
C27_Witness ==
  /\ pc = "failed" /\ outcome = "integrity_error"
  /\ \E e \in Range(new_songs \o changed_songs) :
       \E r \in db : TripleOf(r) = TripleOf(e) /\ ~r.is_current

(* -------------------------------- C28 ---------------------------------- *)

\* C28: every stored row has first_seen_date <= last_updated_date
C28_FirstSeenNotAfterLastUpdated ==
  \A r \in db : r.first_seen_date <= r.last_updated_date

\* after a run on a later day one row is older than its last update and
\* another was first seen on that day
C28_Witness ==
  /\ pc = "done"
  /\ \E r \in db : r.first_seen_date < r.last_updated_date
  /\ \E r \in db : r.first_seen_date = scrape_date /\ r.first_seen_date > 1

(* -------------------------------- C29 ---------------------------------- *)

\* main is past its call of get_existing_songs
PastRead == pc \in { "read", "scraped", "detected", "done", "failed" }

\* every scraped entry is in new, stamped with the scrape date
AllNew ==
  /\ changed_songs = <<>>
  /\ unchanged_songs = <<>>
  /\ Len(new_songs) = Len(current_songs)
  /\ \A i \in 1 .. Len(current_songs) : StampedNew(new_songs[i], current_songs[i])

\* the call of get_existing_songs returns to main, with the mapping of the
\* current rows or with the empty mapping
ReadReturns ==
  pc = "connected" =>
    /\ pc' = "read"
    /\ existing_songs' \in { EmptyMapping, get_existing_songs(db) }

\* C29: when the read of the current rows fails, get_existing_songs returns
\* the empty mapping and the run goes on: every scraped entry is classified
\* new and the INSERT of all of them is issued, whatever is stored, so the
\* commit stores them all or fails on a stored triple
C29_ReadFailureMeansAllNew ==
  /\ []((PastRead /\ ~FaithfulRead) =>
          /\ existing_songs = EmptyMapping
          /\ Classified => AllNew
          /\ pc = "done" =>
               \A s \in Range(current_songs) :
                 \E r \in db : Carries(r, s) /\ r \notin db_before
          /\ (pc = "failed" /\ outcome = "integrity_error") =>
               \E i \in 1 .. Len(new_songs) :
                 \/ RowsOf(db_before, TripleOf(new_songs[i])) # {}
                 \/ \E j \in 1 .. i - 1 : TripleOf(new_songs[j]) = TripleOf(new_songs[i]))
  /\ [][ReadReturns]_vars

\* the read failed while the song of a player was stored and current: the
\* scraped song was classified new and its INSERT met the stored row
C29_Witness ==
  /\ pc = "failed" /\ outcome = "integrity_error"
  /\ ~FaithfulRead
  /\ changed_songs = <<>> /\ unchanged_songs = <<>>
  /\ \E e \in Range(new_songs) :
       \E r \in db_before : TripleOf(r) = TripleOf(e) /\ r.is_current

====
